---- MODULE Spec2Model ----
(***************************************************************************)
(* Model of the ELD log pipeline of the trip planner front end             *)
(* (frontend/src/components/ELDLogs.js, processTripData).                  *)
(*                                                                         *)
(* Instants are counted in minutes since local midnight of 2025-08-07, the *)
(* calendar day of the visualizer's default start date.  Durations of      *)
(* stops (duration_hours) are carried in minutes as well, so that 0.5 h is *)
(* 30 and 11 h is 660.  Every calendar day is 24 hours long (no daylight   *)
(* saving transition inside the trip).  startHour and endHour of segments  *)
(* are hours, as in the code; summary values are carried in hundredths of  *)
(* an hour, the resolution that toFixed(2) leaves.                         *)
(***************************************************************************)
EXTENDS Integers, Sequences, FiniteSets, TLC

VARIABLES
    plannedStops,        \* argument: sequence of stops [type, duration_hours]
    startDate,           \* argument: the trip-start instant
    pc,                  \* position inside processTripData
    stopIdx,             \* index of the stop the forEach is at
    eldStatus,           \* local of the forEach callback
    activityStartTime,   \* local of the forEach callback
    activityEndTime,     \* local of the forEach callback
    tempCurrentTime,     \* cursor of the day-splitting while loop
    currentAbsoluteTime, \* the running clock
    dailyData,           \* day key -> [segments, summary]
    dayOrder,            \* insertion order of the keys of dailyData
    postIdx,             \* index in dayOrder the for-in loop is at
    iterations,          \* history: one record per while-loop iteration
    stages,              \* history: day key -> [raw, filled] of post-processing
    memo,                \* history: input -> result of its first completed run
    calls,               \* number of calls started
    summaryData,         \* DailySummaryTable: the summaryData prop
    mergedSummary,       \* DailySummaryTable: the three displayed values
    tablePc,             \* DailySummaryTable: position of the render
    dayPc,               \* day key -> position of that day's post-processing
    dayLocals,           \* day key -> [filledSegments, mergedSegments] of its loop body
    orderHistory,        \* history: the days in finishing order, the days that overlapped
    tripData,            \* TripProvider: the tripData state, null or <<data>>
    path,                \* the route the Router is at
    screen,              \* what the element of the route has rendered
    form,                \* TripForm: the form state
    fetchPc,             \* TripForm: position inside fetchTripData, or how it returned
    redirectPath,        \* TripForm: argument of the fetchTripData in progress
    response,            \* TripForm: how the awaited request settled, null or <<response>>
    processedLogData     \* DailyLogVisualizer: the value of its useMemo

\* the variables of DailySummaryTable
tableVars == <<summaryData, mergedSummary, tablePc>>

\* the variables of the post-processing taken day by day in any order
orderVars == <<dayPc, dayLocals, orderHistory>>

\* what a call of processTripData in its own iteration order leaves alone
\* the variables of the application around the components
appVars == <<tripData, path, screen, form, fetchPc, redirectPath, response,
            processedLogData>>

viewVars == <<tableVars, orderVars, appVars>>

vars == <<plannedStops, startDate, pc, stopIdx, eldStatus, activityStartTime,
          activityEndTime, tempCurrentTime, currentAbsoluteTime, dailyData,
          dayOrder, postIdx, iterations, stages, memo, calls, viewVars>>

----------------------------------------------------------------------------
(* Bounds of the exploration *)

MaxStops == 3

MaxCalls == 3

(* Units *)

MinutesPerHour == 60

MinutesPerDay == 1440

HoursPerDay == 24

HundredthsPerHour == 100

Hours(h) == h * MinutesPerHour

----------------------------------------------------------------------------
(* Inputs *)

Stop(type, minutes) == [type |-> type, duration_hours |-> minutes]

\* Every label of ELD_STATUS_MAP and two unmapped ones, one of them the name of
\* the duty status no label maps to; durations cover zero,
\* fractional, whole-hour and longer-than-a-day activities (4.37 h, 5.43 h,
\* 10 h, 11 h, 1 h and 0.5 h are the durations of TripForm's testRouteData).
StopCatalog ==
    { Stop("Driving (to Origin)", 262),
      Stop("Daily Rest", Hours(10)),
      Stop("Driving", Hours(11)),
      Stop("Pickup Stop", Hours(1)),
      Stop("Refueling Stop", 30),
      Stop("Drop-off Stop", 0),
      Stop("Driving (to Destination)", Hours(30)),
      Stop("Driving (to Destination)", 326),
      Stop("Daily Rest", 45),
      Stop("Inspection Stop", 90),
      Stop("Sleeper Birth", Hours(8)) }

\* 00:00, 08:00, 08:30 and 23:30 of 2025-08-07
TripStarts == { 0, Hours(8), Hours(8) + 30, Hours(23) + 30 }

StopLists == UNION { [1..n -> StopCatalog] : n \in 0..MaxStops }

ScenarioA == << <<Stop("Driving", Hours(11)), Stop("Daily Rest", Hours(10))>>, Hours(8) >>

\* Inputs with which the function is called again after a completed call
RerunInputs ==
    { ScenarioA,
      << <<Stop("Pickup Stop", Hours(1))>>, Hours(23) + 30 >>,
      << <<Stop("Driving (to Destination)", Hours(30)), Stop("Inspection Stop", 90)>>, Hours(8) + 30 >> }

----------------------------------------------------------------------------
(* Constants of ELDLogs.js *)

ELD_STATUS_MAP ==
    [ l \in { "Driving (to Origin)", "Driving (to Destination)", "Driving",
              "Daily Rest", "Pickup Stop", "Refueling Stop", "Drop-off Stop" } |->
        CASE l = "Driving (to Origin)" -> "Driving"
          [] l = "Driving (to Destination)" -> "Driving"
          [] l = "Driving" -> "Driving"
          [] l = "Daily Rest" -> "Off Duty"
          [] l = "Pickup Stop" -> "On Duty (Not Driving)"
          [] l = "Refueling Stop" -> "On Duty (Not Driving)"
          [] l = "Drop-off Stop" -> "On Duty (Not Driving)" ]

dutyStatuses == <<"Off Duty", "Sleeper Birth", "Driving", "On Duty (Not Driving)">>

StatusSet == { dutyStatuses[i] : i \in DOMAIN dutyStatuses }

\* the keys of mergedSummary in DailySummaryTable
DisplayedSet == { "Off Duty", "Driving", "On Duty (Not Driving)" }

\* ELD_STATUS_MAP[activityType] || 'Off Duty'
Classify_defaultOnDuty(activityType) ==
    IF activityType \in DOMAIN ELD_STATUS_MAP
    THEN ELD_STATUS_MAP[activityType]
    ELSE "On Duty (Not Driving)"

Classify_ownName(activityType) ==
    IF activityType \in DOMAIN ELD_STATUS_MAP
    THEN ELD_STATUS_MAP[activityType]
    ELSE IF activityType \in StatusSet THEN activityType ELSE "Off Duty"

Classify(activityType) ==
    IF activityType \in DOMAIN ELD_STATUS_MAP
    THEN ELD_STATUS_MAP[activityType]
    ELSE "Off Duty"

\* stop.duration_hours
DurationOf_orDefault(stop) ==
    IF stop.duration_hours = 0 THEN Hours(1) ELSE stop.duration_hours

DurationOf(stop) == stop.duration_hours

----------------------------------------------------------------------------
(* date-fns, as ELDLogs.js uses it *)

\* the amount is added as it is, fractions of an hour included
addHours(date, amount) == date + amount

startOfDay(date) == (date \div MinutesPerDay) * MinutesPerDay

addDays_skipping(date, amount) == date + (amount + 1) * MinutesPerDay

addDays(date, amount) == date + amount * MinutesPerDay

isBefore_orEqual(date, dateToCompare) == date <= dateToCompare

isBefore(date, dateToCompare) == date < dateToCompare

min(a, b) == IF a < b THEN a ELSE b

\* whole hours between the two instants, the fraction cut off
differenceInHours(dateLeft, dateRight) ==
    IF dateLeft >= dateRight
    THEN (dateLeft - dateRight) \div MinutesPerHour
    ELSE 0 - ((dateRight - dateLeft) \div MinutesPerHour)

\* 'yyyy-MM-dd' of a day start, as <<year, month, day>>
format(date) == <<2025, 8, 7 + (date \div MinutesPerDay)>>

----------------------------------------------------------------------------
(* processTripData: the body of the day-splitting loop *)

Segment(status, startHour, endHour) ==
    [status |-> status, startHour |-> startHour, endHour |-> endHour]

EmptyDailyData == [k \in {} |-> 0]

\* useState(null): no trip data; a trip data object td is held as <<td>>
null == <<>>

\* the keys of TripForm's form state
FormFields == { "current_location", "pickup_location", "dropoff_location" }

NewDay ==
    [segments |-> <<>>, summary |-> [s \in StatusSet |-> 0]]

\* if (segmentDuration > 0)
HasDuration_orZero(segmentDuration) == segmentDuration >= 0

HasDuration(segmentDuration) == segmentDuration > 0

\* one iteration of the while loop, on the locals it reads
WhileBody(dd, order, status, temp, activityEnd) ==
    LET currentDayStart == startOfDay(temp)
        nextDayStart == addDays(currentDayStart, 1)
        dayEndForSegment == min(activityEnd, nextDayStart)
        currentDayFormatted == format(currentDayStart)
        known == currentDayFormatted \in DOMAIN dd
        dd1 == IF known THEN dd
               ELSE [k \in DOMAIN dd \cup {currentDayFormatted} |->
                        IF k = currentDayFormatted THEN NewDay ELSE dd[k]]
        order1 == IF known THEN order ELSE Append(order, currentDayFormatted)
        segmentStartHour == differenceInHours(temp, currentDayStart)
        segmentEndHour == differenceInHours(dayEndForSegment, currentDayStart)
        segmentDuration == segmentEndHour - segmentStartHour
        seg == Segment(status, segmentStartHour, segmentEndHour)
        dd2 == IF HasDuration(segmentDuration)
               THEN [dd1 EXCEPT ![currentDayFormatted].segments = Append(@, seg)]
               ELSE dd1
    IN  [dailyData |-> dd2,
         dayOrder |-> order1,
         tempCurrentTime |-> nextDayStart,
         day |-> currentDayFormatted,
         from |-> temp,
         to |-> dayEndForSegment,
         pushed |-> HasDuration(segmentDuration),
         seg |-> seg]

----------------------------------------------------------------------------
(* processTripData: post-processing of one day *)

Max(a, b) == IF a > b THEN a ELSE b

Abs(x) == IF x < 0 THEN 0 - x ELSE x

\* Array.prototype.sort with (a, b) => a.startHour - b.startHour, stable
RECURSIVE InsertSorted(_, _)
InsertSorted(sorted, seg) ==
    IF sorted = <<>> THEN <<seg>>
    ELSE IF sorted[Len(sorted)].startHour - seg.startHour > 0
         THEN Append(InsertSorted(SubSeq(sorted, 1, Len(sorted) - 1), seg),
                     sorted[Len(sorted)])
         ELSE Append(sorted, seg)

RECURSIVE SortByStartHour(_)
SortByStartHour(segments) ==
    IF segments = <<>> THEN <<>>
    ELSE InsertSorted(SortByStartHour(SubSeq(segments, 1, Len(segments) - 1)),
                      segments[Len(segments)])

\* the trailing fill: if (currentHourPointer < 24) push Off Duty up to 24
TrailingFill_missing(filledSegments, currentHourPointer) == filledSegments

TrailingFill_sleeper(filledSegments, currentHourPointer) ==
    IF currentHourPointer < HoursPerDay
    THEN Append(filledSegments, Segment("Sleeper Birth", currentHourPointer, HoursPerDay))
    ELSE filledSegments

TrailingFill(filledSegments, currentHourPointer) ==
    IF currentHourPointer < HoursPerDay
    THEN Append(filledSegments, Segment("Off Duty", currentHourPointer, HoursPerDay))
    ELSE filledSegments

RECURSIVE FillFrom(_, _, _, _)
FillFrom(segments, i, currentHourPointer, filledSegments) ==
    IF i > Len(segments)
    THEN TrailingFill(filledSegments, currentHourPointer)
    ELSE LET segment == segments[i]
             actualSegmentStart == Max(currentHourPointer, segment.startHour)
             withGap == IF actualSegmentStart > currentHourPointer
                        THEN Append(filledSegments,
                                    Segment("Off Duty", currentHourPointer, actualSegmentStart))
                        ELSE filledSegments
             withSeg == Append(withGap,
                               Segment(segment.status, actualSegmentStart,
                                       min(HoursPerDay, segment.endHour)))
         IN  FillFrom(segments, i + 1, min(HoursPerDay, segment.endHour), withSeg)

FillGaps(segments) == FillFrom(segments, 1, 0, <<>>)

\* currentMerged.status === nextSegment.status && |endHour - startHour| < 0.001
Mergeable_anyStatus(currentMerged, nextSegment) ==
    Abs(currentMerged.endHour - nextSegment.startHour) * 1000 < 1

Mergeable(currentMerged, nextSegment) ==
    /\ currentMerged.status = nextSegment.status
    /\ Abs(currentMerged.endHour - nextSegment.startHour) * 1000 < 1

\* the for loop of lines 120-128, folding every run into currentMerged
RECURSIVE MergeFrom_pairs(_, _, _, _)
MergeFrom_pairs(filledSegments, i, currentMerged, mergedSegments) ==
    IF i > Len(filledSegments)
    THEN Append(mergedSegments, currentMerged)
    ELSE LET nextSegment == filledSegments[i]
             fused == [currentMerged EXCEPT !.endHour = nextSegment.endHour]
         IN  IF Mergeable(currentMerged, nextSegment)
             THEN IF i + 1 > Len(filledSegments)
                  THEN Append(mergedSegments, fused)
                  ELSE MergeFrom_pairs(filledSegments, i + 2, filledSegments[i + 1],
                                       Append(mergedSegments, fused))
             ELSE MergeFrom_pairs(filledSegments, i + 1, nextSegment,
                                  Append(mergedSegments, currentMerged))

RECURSIVE MergeFrom(_, _, _, _)
MergeFrom(filledSegments, i, currentMerged, mergedSegments) ==
    IF i > Len(filledSegments)
    THEN Append(mergedSegments, currentMerged)
    ELSE LET nextSegment == filledSegments[i]
         IN  IF Mergeable(currentMerged, nextSegment)
             THEN MergeFrom(filledSegments, i + 1,
                            [currentMerged EXCEPT !.endHour = nextSegment.endHour],
                            mergedSegments)
             ELSE MergeFrom(filledSegments, i + 1, nextSegment,
                            Append(mergedSegments, currentMerged))

MergeSegments_skipped(filledSegments) == filledSegments

MergeSegments(filledSegments) ==
    IF Len(filledSegments) > 0
    THEN MergeFrom(filledSegments, 2, filledSegments[1], <<>>)
    ELSE <<>>

RECURSIVE HoursOfStatus_byEndHour(_, _)
HoursOfStatus_byEndHour(segs, status) ==
    IF segs = <<>> THEN 0
    ELSE HoursOfStatus_byEndHour(Tail(segs), status)
         + (IF Head(segs).status = status THEN Head(segs).endHour ELSE 0)

RECURSIVE HoursOfStatus(_, _)
HoursOfStatus(segs, status) ==
    IF segs = <<>> THEN 0
    ELSE HoursOfStatus(Tail(segs), status)
         + (IF Head(segs).status = status
            THEN Head(segs).endHour - Head(segs).startHour ELSE 0)

\* parseFloat(x.toFixed(2)) of a whole number of hours, in hundredths of an hour
toFixed2(hours) == hours * HundredthsPerHour

Summarize(mergedSegments) ==
    [status \in StatusSet |-> toFixed2(HoursOfStatus(mergedSegments, status))]

\* lines 84-141 on one entry of dailyData; each local of the loop body is
\* bound once, as the const declarations of lines 85, 91 and 117 bind it
PostProcess_summaryOfActivities(entry) ==
    CHOOSE p \in
      UNION { UNION { { [segments |-> mergedSegments,
                         summary |-> Summarize(segments),
                         raw |-> segments,
                         filled |-> filledSegments] :
                        mergedSegments \in {MergeSegments(filledSegments)} } :
                      filledSegments \in {FillGaps(segments)} } :
              segments \in {SortByStartHour(entry.segments)} } : TRUE

PostProcess(entry) ==
    CHOOSE p \in
      UNION { UNION { { [segments |-> mergedSegments,
                         summary |-> Summarize(mergedSegments),
                         raw |-> segments,
                         filled |-> filledSegments] :
                        mergedSegments \in {MergeSegments(filledSegments)} } :
                      filledSegments \in {FillGaps(segments)} } :
              segments \in {SortByStartHour(entry.segments)} } : TRUE

----------------------------------------------------------------------------
(* processTripData as a function of its two arguments *)

RECURSIVE WhileLoop(_, _, _, _, _)
WhileLoop(dd, order, status, temp, activityEnd) ==
    IF isBefore(temp, activityEnd)
    THEN LET b == WhileBody(dd, order, status, temp, activityEnd)
         IN  WhileLoop(b.dailyData, b.dayOrder, status, b.tempCurrentTime, activityEnd)
    ELSE [dailyData |-> dd, dayOrder |-> order]

RECURSIVE ForEachStop(_, _, _, _, _)
ForEachStop(stops, i, clock, dd, order) ==
    IF i > Len(stops)
    THEN [dailyData |-> dd, dayOrder |-> order]
    ELSE LET end == addHours(clock, DurationOf(stops[i]))
             w == WhileLoop(dd, order, Classify(stops[i].type), clock, end)
         IN  ForEachStop(stops, i + 1, end, w.dailyData, w.dayOrder)

DayLog(entry) == [segments |-> entry.segments, summary |-> entry.summary]

processTripData(stops, start) ==
    LET e == ForEachStop(stops, 1, start, EmptyDailyData, <<>>)
    IN  [dailyData |-> [k \in DOMAIN e.dailyData |-> DayLog(PostProcess(e.dailyData[k]))],
         dayOrder |-> e.dayOrder]

----------------------------------------------------------------------------
(* processTripData step by step *)

\* const dailyData = {} : every call starts from an empty object
InitialData_kept(previousData, previousOrder) ==
    [dailyData |-> previousData, dayOrder |-> previousOrder]

InitialData(previousData, previousOrder) ==
    [dailyData |-> EmptyDailyData, dayOrder |-> <<>>]

Input == <<plannedStops, startDate>>

Init ==
    /\ plannedStops = <<>>
    /\ startDate = 0
    /\ pc = "idle"
    /\ stopIdx = 1
    /\ eldStatus = "Off Duty"
    /\ activityStartTime = 0
    /\ activityEndTime = 0
    /\ tempCurrentTime = 0
    /\ currentAbsoluteTime = 0
    /\ dailyData = EmptyDailyData
    /\ dayOrder = <<>>
    /\ postIdx = 1
    /\ iterations = <<>>
    /\ stages = EmptyDailyData
    /\ memo = EmptyDailyData
    /\ calls = 0
    /\ summaryData = [status \in StatusSet |-> 0]
    /\ mergedSummary = [status \in DisplayedSet |-> 0]
    /\ tablePc = "none"
    /\ dayPc = EmptyDailyData
    /\ dayLocals = EmptyDailyData
    /\ orderHistory = [finished |-> <<>>, overlapped |-> {}]
    /\ tripData = null
    /\ path = "/"
    /\ screen = "rendering"
    /\ form = [name \in FormFields |-> ""]
    /\ fetchPc = "idle"
    /\ redirectPath = "/"
    /\ response = null
    /\ processedLogData = EmptyDailyData

\* lines 35-37: entry of processTripData
Enter(stops, start) ==
    /\ plannedStops' = stops
    /\ startDate' = start
    /\ LET d == InitialData(dailyData, dayOrder)
       IN  /\ dailyData' = d.dailyData
           /\ dayOrder' = d.dayOrder
    /\ currentAbsoluteTime' = start
    /\ stopIdx' = 1
    /\ postIdx' = 1
    /\ iterations' = <<>>
    /\ stages' = EmptyDailyData
    /\ calls' = calls + 1
    /\ pc' = "forEach"
    /\ UNCHANGED <<eldStatus, activityStartTime, activityEndTime, tempCurrentTime, memo>>
    /\ UNCHANGED viewVars

\* the first call, on any input
Call ==
    /\ pc = "idle"
    /\ \E stops \in StopLists, start \in TripStarts : Enter(stops, start)

\* the useMemo of DailyLogVisualizer (lines 249-251) runs the function again;
\* repeated calls are explored over RerunInputs
Recompute ==
    /\ pc = "done"
    /\ calls < MaxCalls
    /\ Input \in RerunInputs
    /\ \E in \in RerunInputs : Enter(in[1], in[2])

\* lines 40-47: the forEach callback starts on the next stop
BeginStop ==
    /\ pc = "forEach"
    /\ stopIdx <= Len(plannedStops)
    /\ LET stop == plannedStops[stopIdx]
       IN  /\ eldStatus' = Classify(stop.type)
           /\ activityStartTime' = currentAbsoluteTime
           /\ activityEndTime' = addHours(currentAbsoluteTime, DurationOf(stop))
           /\ tempCurrentTime' = currentAbsoluteTime
    /\ pc' = "while"
    /\ UNCHANGED <<plannedStops, startDate, stopIdx, currentAbsoluteTime, dailyData,
                   dayOrder, postIdx, iterations, stages, memo, calls>>
    /\ UNCHANGED viewVars

\* lines 50-78: one iteration of the while loop
SplitDay ==
    /\ pc = "while"
    /\ isBefore(tempCurrentTime, activityEndTime)
    /\ LET b == WhileBody(dailyData, dayOrder, eldStatus, tempCurrentTime, activityEndTime)
       IN  /\ dailyData' = b.dailyData
           /\ dayOrder' = b.dayOrder
           /\ tempCurrentTime' = b.tempCurrentTime
           /\ iterations' = Append(iterations,
                                   [stop |-> stopIdx, day |-> b.day, from |-> b.from,
                                    to |-> b.to, pushed |-> b.pushed, seg |-> b.seg])
    /\ UNCHANGED <<plannedStops, startDate, pc, stopIdx, eldStatus, activityStartTime,
                   activityEndTime, currentAbsoluteTime, postIdx, stages, memo, calls>>
    /\ UNCHANGED viewVars

\* line 79: the loop is over, the running clock moves to the activity's end
EndStop_cursor ==
    /\ pc = "while"
    /\ ~ isBefore(tempCurrentTime, activityEndTime)
    /\ currentAbsoluteTime' = tempCurrentTime
    /\ stopIdx' = stopIdx + 1
    /\ pc' = "forEach"
    /\ UNCHANGED <<plannedStops, startDate, eldStatus, activityStartTime, activityEndTime,
                   tempCurrentTime, dailyData, dayOrder, postIdx, iterations, stages,
                   memo, calls>>
    /\ UNCHANGED viewVars

EndStop ==
    /\ pc = "while"
    /\ ~ isBefore(tempCurrentTime, activityEndTime)
    /\ currentAbsoluteTime' = activityEndTime
    /\ stopIdx' = stopIdx + 1
    /\ pc' = "forEach"
    /\ UNCHANGED <<plannedStops, startDate, eldStatus, activityStartTime, activityEndTime,
                   tempCurrentTime, dailyData, dayOrder, postIdx, iterations, stages,
                   memo, calls>>
    /\ UNCHANGED viewVars

\* line 83: the forEach is over, the for-in loop over the days starts
BeginPost ==
    /\ pc = "forEach"
    /\ stopIdx > Len(plannedStops)
    /\ postIdx' = 1
    /\ pc' = "post"
    /\ UNCHANGED <<plannedStops, startDate, stopIdx, eldStatus, activityStartTime,
                   activityEndTime, tempCurrentTime, currentAbsoluteTime, dailyData,
                   dayOrder, iterations, stages, memo, calls>>
    /\ UNCHANGED viewVars

\* lines 84-141: sort, fill, merge and summarize the next day
PostProcessDay ==
    /\ pc = "post"
    /\ postIdx <= Len(dayOrder)
    /\ LET dateKey == dayOrder[postIdx]
           p == PostProcess(dailyData[dateKey])
       IN  /\ dailyData' = [dailyData EXCEPT ![dateKey] = DayLog(p)]
           /\ stages' = [k \in DOMAIN stages \cup {dateKey} |->
                            IF k = dateKey THEN [raw |-> p.raw, filled |-> p.filled]
                            ELSE stages[k]]
    /\ postIdx' = postIdx + 1
    /\ UNCHANGED <<plannedStops, startDate, pc, stopIdx, eldStatus, activityStartTime,
                   activityEndTime, tempCurrentTime, currentAbsoluteTime, dayOrder,
                   iterations, memo, calls>>
    /\ UNCHANGED viewVars

Result == [dailyData |-> dailyData, dayOrder |-> dayOrder]

\* line 144: return dailyData
Return ==
    /\ pc = "post"
    /\ postIdx > Len(dayOrder)
    /\ pc' = "done"
    /\ memo' = IF Input \in RerunInputs /\ Input \notin DOMAIN memo
               THEN [i \in DOMAIN memo \cup {Input} |->
                        IF i = Input THEN [result |-> Result, call |-> calls]
                        ELSE memo[i]]
               ELSE memo
    /\ UNCHANGED <<plannedStops, startDate, stopIdx, eldStatus, activityStartTime,
                   activityEndTime, tempCurrentTime, currentAbsoluteTime, dailyData,
                   dayOrder, postIdx, iterations, stages, calls>>
    /\ UNCHANGED viewVars

Next ==
    \/ Call
    \/ Recompute
    \/ BeginStop
    \/ SplitDay
    \/ EndStop
    \/ BeginPost
    \/ PostProcessDay
    \/ Return

Spec == Init /\ [][Next]_vars

\* the steps of one call: processTripData is synchronous and, once entered,
\* runs until it returns
Run ==
    \/ BeginStop
    \/ SplitDay
    \/ EndStop
    \/ BeginPost
    \/ PostProcessDay
    \/ Return

\* the calls whose runs are followed to their end: one or two stops
RunInputs ==
    { in \in [1..1 -> StopCatalog] \cup [1..2 -> StopCatalog] \cup {<<>>} : TRUE }
        \X TripStarts

CallRun ==
    /\ pc = "idle"
    /\ \E in \in RunInputs : Enter(in[1], in[2])

NextRun == CallRun \/ Run

SpecRun == Init /\ [][NextRun]_vars /\ WF_vars(Run)

----------------------------------------------------------------------------
(* DailySummaryTable: the three-category view of one day's summary.
   Values are hundredths of an hour, the unit of a summary after toFixed(2),
   so that the toFixed(2) of line 159 gives back the value it is applied to. *)

\* values of a summary entry: 0 h, 0.01 h, 6 h, 11.99 h, 12 h and 24 h
SummaryValues == { 0, 1, 600, 1199, 1200, 2400 }

\* the summaryData prop: any of the four keys may be missing
SummaryProps == UNION { [D -> SummaryValues] : D \in SUBSET StatusSet }

\* obj[key] || 0
OrZero(obj, key) == IF key \in DOMAIN obj THEN obj[key] ELSE 0

\* lines 149-153
MergedOf(sd) ==
    [status \in DisplayedSet |->
        IF status = "Off Duty"
        THEN OrZero(sd, "Off Duty") + OrZero(sd, "Sleeper Birth")
        ELSE OrZero(sd, status)]

\* line 156: Object.values(mergedSummary).reduce((a, b) => a + b, 0)
TotalOf(merged) ==
    merged["Off Duty"] + merged["Driving"] + merged["On Duty (Not Driving)"]

\* the 24 and the 0.01 of line 157
FullDay == HoursPerDay * HundredthsPerHour

Tolerance == 1

\* line 157: the outcomes of Math.abs(total - 24) > 0.01. When the exact
\* difference is 0.01 the binary rounding of the sum decides the comparison.
ExceedsTolerance(total) ==
    IF Abs(total - FullDay) = Tolerance THEN {TRUE, FALSE}
    ELSE {Abs(total - FullDay) > Tolerance}

\* lines 158-159
Reconciled_driving(merged) ==
    [merged EXCEPT !["Driving"] = @ + (FullDay - TotalOf(merged))]

Reconciled(merged) ==
    [merged EXCEPT !["Off Duty"] = @ + (FullDay - TotalOf(merged))]

\* lines 147-153: the component is rendered with a summary
RenderTable ==
    /\ tablePc \in {"none", "shown"}
    /\ \E sd \in SummaryProps :
          /\ summaryData' = sd
          /\ mergedSummary' = MergedOf(sd)
    /\ tablePc' = "total"
    /\ UNCHANGED <<plannedStops, startDate, pc, stopIdx, eldStatus, activityStartTime,
                   activityEndTime, tempCurrentTime, currentAbsoluteTime, dailyData,
                   dayOrder, postIdx, iterations, stages, memo, calls, orderVars, appVars>>

\* lines 156-162: the total is brought to 24 and the table is returned
Reconcile ==
    /\ tablePc = "total"
    /\ \E exceeds \in ExceedsTolerance(TotalOf(mergedSummary)) :
          mergedSummary' = IF exceeds THEN Reconciled(mergedSummary) ELSE mergedSummary
    /\ tablePc' = "shown"
    /\ UNCHANGED <<plannedStops, startDate, pc, stopIdx, eldStatus, activityStartTime,
                   activityEndTime, tempCurrentTime, currentAbsoluteTime, dailyData,
                   dayOrder, postIdx, iterations, stages, memo, calls, orderVars, appVars,
                   summaryData>>

NextTable ==
    \/ RenderTable
    \/ Reconcile

SpecTable == Init /\ [][NextTable]_vars

----------------------------------------------------------------------------
(* The for-in loop of lines 83-142 with its iterations taken in any order and
   interleaved statement by statement. Every iteration has its own const and
   let bindings (segments, filledSegments, currentHourPointer, mergedSegments,
   currentMerged, summary), kept per day in dayLocals. *)

tripVars == <<plannedStops, startDate, stopIdx, eldStatus, activityStartTime,
              activityEndTime, tempCurrentTime, currentAbsoluteTime, postIdx,
              iterations, stages, memo, calls>>

InProgress == { "fill", "merge", "summarize" }

\* history of one statement of day dateKey
Stepped(dateKey, finishes) ==
    [finished |-> IF finishes THEN Append(orderHistory.finished, dateKey)
                  ELSE orderHistory.finished,
     overlapped |-> IF \E other \in DOMAIN dayPc \ {dateKey} : dayPc[other] \in InProgress
                    THEN orderHistory.overlapped \cup {dateKey}
                    ELSE orderHistory.overlapped]

\* line 83: the forEach is over, every day's iteration may start
BeginPostAny ==
    /\ pc = "forEach"
    /\ stopIdx > Len(plannedStops)
    /\ pc' = "postAny"
    /\ dayPc' = [dateKey \in DOMAIN dailyData |-> "sort"]
    /\ dayLocals' = [dateKey \in DOMAIN dailyData |->
                        [filledSegments |-> <<>>, mergedSegments |-> <<>>]]
    /\ orderHistory' = [finished |-> <<>>, overlapped |-> {}]
    /\ UNCHANGED <<tripVars, dailyData, dayOrder, tableVars, appVars>>

\* lines 85-87: segments.sort(...) sorts dailyData[dateKey].segments in place
SortDay(dateKey) ==
    /\ pc = "postAny"
    /\ dayPc[dateKey] = "sort"
    /\ dailyData' = [dailyData EXCEPT ![dateKey].segments = SortByStartHour(@)]
    /\ dayPc' = [dayPc EXCEPT ![dateKey] = "fill"]
    /\ orderHistory' = Stepped(dateKey, FALSE)
    /\ UNCHANGED <<tripVars, pc, dayOrder, dayLocals, tableVars, appVars>>

\* lines 90-114: filledSegments is built from the day's sorted segments
FillDay(dateKey) ==
    /\ pc = "postAny"
    /\ dayPc[dateKey] = "fill"
    /\ dayLocals' = [dayLocals EXCEPT
                        ![dateKey].filledSegments = FillGaps(dailyData[dateKey].segments)]
    /\ dayPc' = [dayPc EXCEPT ![dateKey] = "merge"]
    /\ orderHistory' = Stepped(dateKey, FALSE)
    /\ UNCHANGED <<tripVars, pc, dailyData, dayOrder, tableVars, appVars>>

\* lines 117-131: mergedSegments is built and stored as the day's segments
MergeDay(dateKey) ==
    /\ pc = "postAny"
    /\ dayPc[dateKey] = "merge"
    /\ \E mergedSegments \in {MergeSegments(dayLocals[dateKey].filledSegments)} :
          /\ dayLocals' = [dayLocals EXCEPT ![dateKey].mergedSegments = mergedSegments]
          /\ dailyData' = [dailyData EXCEPT ![dateKey].segments = mergedSegments]
    /\ dayPc' = [dayPc EXCEPT ![dateKey] = "summarize"]
    /\ orderHistory' = Stepped(dateKey, FALSE)
    /\ UNCHANGED <<tripVars, pc, dayOrder, tableVars, appVars>>

\* lines 134-141: the summary is computed from dailyData[dateKey].segments
SummarizeDay_firstDay(dateKey) ==
    /\ pc = "postAny"
    /\ dayPc[dateKey] = "summarize"
    /\ dailyData' = [dailyData EXCEPT
                        ![dateKey].summary = Summarize(dailyData[dayOrder[1]].segments)]
    /\ dayPc' = [dayPc EXCEPT ![dateKey] = "finished"]
    /\ orderHistory' = Stepped(dateKey, TRUE)
    /\ UNCHANGED <<tripVars, pc, dayOrder, dayLocals, tableVars, appVars>>

SummarizeDay(dateKey) ==
    /\ pc = "postAny"
    /\ dayPc[dateKey] = "summarize"
    /\ dailyData' = [dailyData EXCEPT
                        ![dateKey].summary = Summarize(dailyData[dateKey].segments)]
    /\ dayPc' = [dayPc EXCEPT ![dateKey] = "finished"]
    /\ orderHistory' = Stepped(dateKey, TRUE)
    /\ UNCHANGED <<tripVars, pc, dayOrder, dayLocals, tableVars, appVars>>

\* line 144: return dailyData, once every day's iteration is over
ReturnAny ==
    /\ pc = "postAny"
    /\ \A dateKey \in DOMAIN dayPc : dayPc[dateKey] = "finished"
    /\ pc' = "done"
    /\ UNCHANGED <<tripVars, dailyData, dayOrder, viewVars>>

\* the next statement of any day that is not finished
SortAnyDay == \E dateKey \in DOMAIN dayPc : SortDay(dateKey)

FillAnyDay == \E dateKey \in DOMAIN dayPc : FillDay(dateKey)

MergeAnyDay == \E dateKey \in DOMAIN dayPc : MergeDay(dateKey)

SummarizeAnyDay == \E dateKey \in DOMAIN dayPc : SummarizeDay(dateKey)

NextAnyOrder ==
    \/ CallRun
    \/ BeginStop
    \/ SplitDay
    \/ EndStop
    \/ BeginPostAny
    \/ SortAnyDay
    \/ FillAnyDay
    \/ MergeAnyDay
    \/ SummarizeAnyDay
    \/ ReturnAny

SpecAnyOrder == Init /\ [][NextAnyOrder]_vars

----------------------------------------------------------------------------
(* The application: TripProvider, the three routes of App, TripForm and the
   render of DailyLogVisualizer *)

\* what the application's steps leave alone
processVars == <<tripVars, pc, dailyData, dayOrder, tableVars, orderVars>>

\* the paths of the Routes of App
Paths == { "/", "/eld-log", "/route-instructions" }

\* values typed into a field: empty, white space only, a place name
FieldValues == { "", " ", "Hawassa, Ethiopia" }

\* String.prototype.trim on FieldValues
trim(value) == IF value = " " THEN "" ELSE value

\* the planned_stops of TripForm's testRouteData, durations in minutes
testRouteData ==
    [driverName |-> "John Doe",
     planned_stops |->
        << Stop("Driving (to Origin)", Hours(11)),
           Stop("Daily Rest", Hours(10)),
           Stop("Driving (to Origin)", 262),
           Stop("Pickup Stop", Hours(1)),
           Stop("Refueling Stop", 30),
           Stop("Driving (to Destination)", Hours(11)),
           Stop("Daily Rest", Hours(10)),
           Stop("Driving (to Destination)", Hours(11)),
           Stop("Daily Rest", Hours(10)),
           Stop("Driving (to Destination)", 326),
           Stop("Drop-off Stop", Hours(1)) >>]

\* bodies the server may answer with
ResponseBodies ==
    { [driverName |-> "", planned_stops |-> in[1]] : in \in RerunInputs }

\* outcomes of the axios.post: a status with a body, status 0 for a request
\* that got no answer (network failure, timeout)
Responses == [status : {0, 200, 204, 500}, data : ResponseBodies]

\* axios rejects when there is no answer or the status is outside 2xx
Rejects(settled) == settled.status < 200 \/ settled.status >= 300

\* lines 151-155 of TripForm: a field is blank
AnyBlank(f) == \E name \in FormFields : trim(f[name]) = ""

\* new Date('2025-08-07T08:00:00'), the initial startDate of DailyLogVisualizer
InitialStartDate == Hours(8)

\* the browser loads the application at a path: every state is initial again,
\* the form is read back from localStorage
Load ==
    /\ \E p \in Paths : path' = p
    /\ tripData' = null
    /\ screen' = "rendering"
    /\ fetchPc' = "idle"
    /\ processedLogData' = EmptyDailyData
    /\ response' = null
    /\ UNCHANGED <<form, redirectPath, processVars>>

\* Route path="/" : TripForm
RenderTripForm ==
    /\ screen = "rendering"
    /\ path = "/"
    /\ screen' = "TripForm"
    /\ UNCHANGED <<tripData, path, form, fetchPc, redirectPath, processedLogData,
                   response, processVars>>

\* Route path="/route-instructions" : RouteInstructions, lines 90-98 first
RenderRouteInstructions ==
    /\ screen = "rendering"
    /\ path = "/route-instructions"
    /\ screen' = IF tripData = null THEN "No trip planned yet." ELSE "RouteInstructions"
    /\ UNCHANGED <<tripData, path, form, fetchPc, redirectPath, processedLogData,
                   response, processVars>>

\* DailyLogVisualizer, lines 189-261 in the order they run: line 193 reads
\* tripData.driverName, lines 249-251 call processTripData, line 253 tests
\* tripData
DailyLogVisualizer(td) ==
    IF td = null
    THEN [screen |-> "TypeError", processedLogData |-> EmptyDailyData]
    ELSE LET data == processTripData(td[1].planned_stops, InitialStartDate).dailyData
         IN  IF td = null
             THEN [screen |-> "No trip planned yet.", processedLogData |-> data]
             ELSE [screen |-> "DailyLogVisualizer", processedLogData |-> data]

\* Route path="/eld-log" : DailyLogVisualizer
RenderDailyLogVisualizer ==
    /\ screen = "rendering"
    /\ path = "/eld-log"
    /\ \E rendered \in {DailyLogVisualizer(tripData)} :
          /\ screen' = rendered.screen
          /\ processedLogData' = rendered.processedLogData
    /\ UNCHANGED <<tripData, path, form, fetchPc, redirectPath, response, processVars>>

\* TripForm lines 138-140
handleChange ==
    /\ screen = "TripForm"
    /\ \E name \in FormFields, value \in FieldValues :
          form' = [form EXCEPT ![name] = value]
    /\ UNCHANGED <<tripData, path, screen, fetchPc, redirectPath, processedLogData,
                   response, processVars>>

\* TripForm lines 142-148
handleClear ==
    /\ screen = "TripForm"
    /\ form' = [name \in FormFields |-> ""]
    /\ UNCHANGED <<tripData, path, screen, fetchPc, redirectPath, processedLogData,
                   response, processVars>>

\* TripForm lines 149-169: handleInstruction or handleELD calls fetchTripData,
\* which alerts and returns on a blank field ("alerted") and else posts the
\* request and awaits it
fetchTripData ==
    /\ screen = "TripForm"
    /\ fetchPc \in { "idle", "alerted" }
    /\ \E target \in { "/route-instructions", "/eld-log" } :
          IF AnyBlank(form)
          THEN /\ fetchPc' = "alerted"
               /\ UNCHANGED redirectPath
          ELSE /\ fetchPc' = "awaiting"
               /\ redirectPath' = target
    /\ response' = null
    /\ UNCHANGED <<tripData, path, screen, form, processedLogData, processVars>>

\* TripForm lines 170-177: the awaited request settles and the trip is set
SetTrip_anyStatus ==
    /\ fetchPc = "awaiting"
    /\ \E settled \in Responses :
          /\ response' = <<settled>>
          /\ tripData' = <<settled.data>>
    /\ fetchPc' = "navigate"
    /\ UNCHANGED <<path, screen, form, redirectPath, processedLogData, processVars>>

SetTrip ==
    /\ fetchPc = "awaiting"
    /\ \E settled \in Responses :
          /\ response' = <<settled>>
          /\ tripData' = IF ~ Rejects(settled) /\ settled.status = 200
                         THEN <<settled.data>>
                         ELSE <<testRouteData>>
    /\ fetchPc' = "navigate"
    /\ UNCHANGED <<path, screen, form, redirectPath, processedLogData, processVars>>

\* TripForm line 178: navigate(redirectPath)
Navigate ==
    /\ fetchPc = "navigate"
    /\ path' = redirectPath
    /\ screen' = "rendering"
    /\ fetchPc' = "idle"
    /\ UNCHANGED <<tripData, form, redirectPath, processedLogData, response, processVars>>

\* the buttons of RouteInstructions (lines 132, 139) and of
\* DailyLogVisualizer (lines 279, 286)
FollowButton ==
    /\ screen \in { "RouteInstructions", "DailyLogVisualizer" }
    /\ \E target \in Paths \ {path} : path' = target
    /\ screen' = "rendering"
    /\ UNCHANGED <<tripData, form, fetchPc, redirectPath, processedLogData, response, processVars>>

NextApp ==
    \/ Load
    \/ RenderTripForm
    \/ RenderRouteInstructions
    \/ RenderDailyLogVisualizer
    \/ handleChange
    \/ handleClear
    \/ fetchTripData
    \/ SetTrip
    \/ Navigate
    \/ FollowButton

SpecApp == Init /\ [][NextApp]_vars

----------------------------------------------------------------------------
(* Properties of the result of processTripData *)

Done == pc = "done"

Days == DOMAIN dailyData

RECURSIVE SumSeq(_)
SumSeq(q) == IF q = <<>> THEN 0 ELSE Head(q) + SumSeq(Tail(q))

CoversDay(segs) ==
    /\ Len(segs) >= 1
    /\ segs[1].startHour = 0
    /\ segs[Len(segs)].endHour = HoursPerDay
    /\ \A i \in 1..(Len(segs) - 1) : segs[i + 1].startHour = segs[i].endHour
    /\ \A i, j \in 1..Len(segs) :
          i < j => /\ segs[i].startHour <= segs[j].startHour
                   /\ segs[i].endHour <= segs[j].startHour

\* C1: in the result, every day's merged segment list is sorted ascending by
\* startHour, pairwise non-overlapping and covers [0,24) exactly: it starts
\* at 0, every later segment starts where the previous one ends, and the
\* last one ends at 24.
C1_DayCovered ==
    Done => \A k \in Days : CoversDay(dailyData[k].segments)

C1_Witness ==
    /\ Done
    /\ \E k \in Days : Len(dailyData[k].segments) >= 4
    /\ \E k \in Days : Len(stages[k].raw) >= 2

SummaryTotal(summary) ==
    SumSeq([i \in DOMAIN dutyStatuses |-> summary[dutyStatuses[i]]])

\* C2: in the result, the four summary values of every day sum to 24 hours
\* within 0.01 hour (2400 hundredths, give or take one).
C2_SummaryIs24 ==
    Done => \A k \in Days :
               Abs(SummaryTotal(dailyData[k].summary) - HoursPerDay * HundredthsPerHour) <= 1

C2_Witness ==
    /\ Done
    /\ \E k \in Days : /\ dailyData[k].summary["Driving"] > 0
                       /\ dailyData[k].summary["On Duty (Not Driving)"] > 0
                       /\ dailyData[k].summary["Off Duty"] > 0

ScenarioAResult ==
    [dailyData |->
        [k \in { <<2025, 8, 7>>, <<2025, 8, 8>> } |->
            IF k = <<2025, 8, 7>>
            THEN [segments |-> << Segment("Off Duty", 0, 8),
                                  Segment("Driving", 8, 19),
                                  Segment("Off Duty", 19, 24) >>,
                  summary |-> [s \in StatusSet |->
                                 CASE s = "Off Duty" -> 1300
                                   [] s = "Driving" -> 1100
                                   [] OTHER -> 0]]
            ELSE [segments |-> << Segment("Off Duty", 0, 24) >>,
                  summary |-> [s \in StatusSet |->
                                 IF s = "Off Duty" THEN 2400 ELSE 0]]],
     dayOrder |-> << <<2025, 8, 7>>, <<2025, 8, 8>> >>]

\* C3: Scenario A. With trip start 2025-08-07T08:00 and activities
\* [Driving 11 h, Daily Rest 10 h] the result has exactly the days 2025-08-07
\* (Off Duty [0,8), Driving [8,19), Off Duty [19,24); Off Duty 13, Driving 11,
\* others 0) and 2025-08-08 (Off Duty [0,24); Off Duty 24, others 0).
C3_ScenarioA ==
    (Done /\ Input = ScenarioA) => Result = ScenarioAResult

C3_Witness ==
    /\ Done
    /\ Input = ScenarioA
    /\ Len(iterations) = 3

RawHours ==
    SumSeq([i \in DOMAIN dayOrder |->
              SumSeq([j \in DOMAIN stages[dayOrder[i]].raw |->
                        stages[dayOrder[i]].raw[j].endHour
                        - stages[dayOrder[i]].raw[j].startHour])])

InputMinutes ==
    SumSeq([i \in DOMAIN plannedStops |-> plannedStops[i].duration_hours])

\* C4: the durations of the activity-derived segments (before gap filling),
\* summed over all days, equal the sum of the input durations within 0.01 hour.
C4_DurationConserved ==
    Done => Abs(RawHours * MinutesPerHour - InputMinutes) * HundredthsPerHour
               <= MinutesPerHour

\* C5: a segment emitted for a part of an activity carries the exact
\* (possibly fractional) hours since that day's midnight of the part's start
\* and end; nothing is rounded or cut to whole hours.
C5_FractionsPreserved ==
    \A i \in DOMAIN iterations :
        iterations[i].pushed =>
            /\ iterations[i].seg.startHour * MinutesPerHour
                  = iterations[i].from - startOfDay(iterations[i].from)
            /\ iterations[i].seg.endHour * MinutesPerHour
                  = iterations[i].to - startOfDay(iterations[i].from)

ExpectedStatus(label) ==
    CASE label \in {"Driving", "Driving (to Origin)", "Driving (to Destination)"} -> "Driving"
      [] label = "Daily Rest" -> "Off Duty"
      [] label \in {"Pickup Stop", "Refueling Stop", "Drop-off Stop"} -> "On Duty (Not Driving)"
      [] OTHER -> "Off Duty"

\* C6: classification is total and fixed. While a stop is being expanded its
\* status is the one the table gives its label (the three driving labels ->
\* Driving, Daily Rest -> Off Duty, the three stop labels -> On Duty (Not
\* Driving), any other label -> Off Duty), it is one of the four duty
\* statuses, and every segment emitted for the stop carries it.
C6_Classification ==
    /\ pc = "while" =>
          /\ eldStatus = ExpectedStatus(plannedStops[stopIdx].type)
          /\ eldStatus \in StatusSet
    /\ \A i \in DOMAIN iterations :
          iterations[i].seg.status = ExpectedStatus(plannedStops[iterations[i].stop].type)

C6_Witness ==
    /\ pc = "while"
    /\ plannedStops[stopIdx].type = "Inspection Stop"
    /\ eldStatus = "Off Duty"
    /\ \E i \in DOMAIN iterations :
          /\ iterations[i].stop = stopIdx
          /\ iterations[i].pushed
    /\ \E i \in DOMAIN iterations :
          plannedStops[iterations[i].stop].type = "Refueling Stop"

\* start and end of activity k as the input fixes them
ActivityStart(k) ==
    startDate + SumSeq([i \in 1..(k - 1) |-> plannedStops[i].duration_hours])

ActivityEnd(k) == ActivityStart(k) + plannedStops[k].duration_hours

PushedFor(k, day) ==
    { i \in DOMAIN iterations :
        /\ iterations[i].stop = k
        /\ iterations[i].pushed
        /\ iterations[i].day = day }

CrossesMidnight(k) ==
    /\ plannedStops[k].duration_hours > 0
    /\ startOfDay(ActivityStart(k)) # startOfDay(ActivityEnd(k) - 1)

DaysTouched(k) ==
    { format(addDays(startOfDay(ActivityStart(k)), n)) :
        n \in 0..((startOfDay(ActivityEnd(k) - 1) - startOfDay(ActivityStart(k)))
                    \div MinutesPerDay) }

\* C7: an activity of positive duration whose interval crosses a midnight
\* yields exactly one activity-derived segment, with the activity's status,
\* on each calendar day the interval touches, and none on any other day.
C7_OneSegmentPerDayTouched ==
    Done =>
      \A k \in DOMAIN plannedStops :
        CrossesMidnight(k) =>
          /\ \A d \in DaysTouched(k) :
                /\ Cardinality(PushedFor(k, d)) = 1
                /\ \A i \in PushedFor(k, d) :
                      iterations[i].seg.status = ExpectedStatus(plannedStops[k].type)
          /\ \A i \in DOMAIN iterations :
                (iterations[i].stop = k /\ iterations[i].pushed)
                   => iterations[i].day \in DaysTouched(k)

Without(q, k) == [i \in 1..(Len(q) - 1) |-> IF i < k THEN q[i] ELSE q[i + 1]]

ZeroBetween(k) ==
    /\ 1 < k
    /\ k < Len(plannedStops)
    /\ plannedStops[k].duration_hours = 0

\* C8: Scenario B. An activity of duration 0 between two others contributes
\* no segment and leaves the running clock where it was; the result is the
\* result for the list without that activity, and every day is still covered.
C8_ZeroDuration ==
    /\ (pc = "forEach" /\ stopIdx > 1 /\ plannedStops[stopIdx - 1].duration_hours = 0) =>
          /\ currentAbsoluteTime = activityStartTime
          /\ \A i \in DOMAIN iterations : iterations[i].stop # stopIdx - 1
    /\ Done =>
          \A k \in DOMAIN plannedStops :
             ZeroBetween(k) =>
                /\ Result = processTripData(Without(plannedStops, k), startDate)
                /\ \A d \in Days : CoversDay(dailyData[d].segments)

C8_Witness ==
    /\ Done
    /\ Len(plannedStops) = 3
    /\ ZeroBetween(2)
    /\ plannedStops[1].duration_hours > 0
    /\ plannedStops[3].duration_hours > 0
    /\ Len(dayOrder) >= 2

\* C9: called with a trip start and an empty activity list, the function
\* returns one day, the trip start's calendar day, whose segments are the
\* single segment Off Duty [0,24).
C9_EmptyListOneDay ==
    (Done /\ plannedStops = <<>>) =>
        /\ Days = { format(startOfDay(startDate)) }
        /\ \A k \in Days : dailyData[k].segments = << Segment("Off Duty", 0, HoursPerDay) >>

\* C10: determinism. A completed run returns what the first completed run on
\* the same (activity list, trip start) returned, whatever was run in between.
C10_Deterministic ==
    (Done /\ Input \in DOMAIN memo) => Result = memo[Input].result

C10_Witness ==
    /\ Done
    /\ Input \in DOMAIN memo
    /\ memo[Input].call = 1
    /\ calls = 3
    /\ \E j \in DOMAIN memo : memo[j].call = 2
    /\ Len(dayOrder) >= 2

----------------------------------------------------------------------------
(* Properties of the stages of processTripData *)

\* C11: the merge step is idempotent: merging a day's merged segment list
\* again returns the same list.
C11_MergeIdempotent ==
    Done => \A k \in Days : MergeSegments(dailyData[k].segments) = dailyData[k].segments

C11_Witness ==
    /\ Done
    /\ \E k \in Days : Len(stages[k].filled) >= Len(dailyData[k].segments) + 2

HoursOfDay == 0..(HoursPerDay - 1)

Covering(segs, h) ==
    { i \in DOMAIN segs : segs[i].startHour <= h /\ h < segs[i].endHour }

\* C14: in the result, every hour of a day that lies inside an
\* activity-derived segment of the day is covered by a final segment of that
\* activity's status, and every other hour by an Off Duty segment; a day
\* without activity-derived segments is the single segment Off Duty [0,24).
C14_StatusOfEveryHour ==
    Done =>
      \A k \in Days :
        /\ \A h \in HoursOfDay :
              LET raws == Covering(stages[k].raw, h)
                  finals == Covering(dailyData[k].segments, h)
              IN  /\ Cardinality(finals) = 1
                  /\ \A i \in finals :
                        /\ \A j \in raws :
                              dailyData[k].segments[i].status = stages[k].raw[j].status
                        /\ raws = {} => dailyData[k].segments[i].status = "Off Duty"
        /\ stages[k].raw = <<>> =>
              dailyData[k].segments = << Segment("Off Duty", 0, HoursPerDay) >>

C14_Witness ==
    /\ Done
    /\ \E k \in Days : stages[k].raw = <<>>
    /\ \E k \in Days : \E i, j \in DOMAIN stages[k].raw :
          /\ stages[k].raw[i].status = "Driving"
          /\ stages[k].raw[j].status = "On Duty (Not Driving)"
          /\ stages[k].raw[j].endHour < HoursPerDay

\* C15: every day's merged list is minimal: no two consecutive segments have
\* the same status.  (Scenario C: the Off Duty segment of an unmapped label
\* is fused with its Off Duty neighbours.)
C15_MergedMinimal ==
    Done =>
      \A k \in Days :
        \A i \in 1..(Len(dailyData[k].segments) - 1) :
           dailyData[k].segments[i].status # dailyData[k].segments[i + 1].status

C15_Witness ==
    /\ Done
    /\ \E n \in DOMAIN iterations :
          /\ plannedStops[iterations[n].stop].type = "Inspection Stop"
          /\ iterations[n].pushed
          /\ \E i \in DOMAIN dailyData[iterations[n].day].segments :
                LET final == dailyData[iterations[n].day].segments[i]
                IN  /\ final.status = "Off Duty"
                    /\ final.startHour < iterations[n].seg.startHour
                    /\ final.endHour > iterations[n].seg.endHour

WellFormed(seg) ==
    /\ 0 <= seg.startHour
    /\ seg.startHour < seg.endHour
    /\ seg.endHour <= HoursPerDay

\* C16: every segment of the gap-filled and of the merged list of every day
\* is well-formed, 0 <= startHour < endHour <= 24: none is empty or inverted.
C16_SegmentsWellFormed ==
    Done =>
      \A k \in Days :
        /\ \A i \in DOMAIN stages[k].filled : WellFormed(stages[k].filled[i])
        /\ \A i \in DOMAIN dailyData[k].segments : WellFormed(dailyData[k].segments[i])

C16_Witness ==
    /\ Done
    /\ \E n \in DOMAIN iterations : ~ iterations[n].pushed
    /\ \E k \in Days : Len(stages[k].filled) >= 4

ElapsedBefore(k) ==
    SumSeq([i \in 1..(k - 1) |-> plannedStops[i].duration_hours])

ClockThreaded ==
    /\ pc \in {"forEach", "while"} =>
          currentAbsoluteTime = startDate + ElapsedBefore(stopIdx)
    /\ pc = "while" =>
          /\ activityStartTime = currentAbsoluteTime
          /\ activityEndTime = activityStartTime + plannedStops[stopIdx].duration_hours

ClockStep ==
    (calls' = calls) =>
        /\ currentAbsoluteTime' >= currentAbsoluteTime
        /\ (pc = "while" /\ pc' = "while") => currentAbsoluteTime' = currentAbsoluteTime

\* C17: the running clock is threaded left to right: the first activity
\* starts at the trip start, activity k+1 starts where activity k ends (trip
\* start plus the first k durations); within a call the clock never moves
\* backwards and an iteration of the day-splitting loop leaves it unchanged.
C17_ClockThreaded ==
    [](ClockThreaded) /\ [][ClockStep]_vars

C17_Witness ==
    /\ pc = "while"
    /\ stopIdx = 3
    /\ currentAbsoluteTime > startDate
    /\ \E n \in DOMAIN iterations :
          /\ iterations[n].stop = 2
          /\ iterations[n].day # format(startOfDay(startDate))

StatusHours(segs, status) ==
    SumSeq([i \in DOMAIN segs |->
              IF segs[i].status = status
              THEN segs[i].endHour - segs[i].startHour ELSE 0])

\* C18: every summary value is the sum of endHour - startHour over the day's
\* merged segments of that status, to 2 decimal places; it is non-negative,
\* and 0 for a status without a segment on that day.
C18_SummaryIsSegmentSum ==
    Done =>
      \A k \in Days : \A s \in StatusSet :
        /\ dailyData[k].summary[s]
              = StatusHours(dailyData[k].segments, s) * HundredthsPerHour
        /\ dailyData[k].summary[s] >= 0
        /\ (\A i \in DOMAIN dailyData[k].segments : dailyData[k].segments[i].status # s)
              => dailyData[k].summary[s] = 0

C18_Witness ==
    /\ Done
    /\ \E k \in Days :
          /\ dailyData[k].summary["Driving"] > 0
          /\ dailyData[k].summary["On Duty (Not Driving)"] > 0
          /\ dailyData[k].summary["Sleeper Birth"] = 0
          /\ Len(dailyData[k].segments) >= 5

----------------------------------------------------------------------------
(* Termination *)

IterationsOf(k) ==
    Cardinality({ n \in DOMAIN iterations : iterations[n].stop = k })

\* the number of calendar days that [start, end) of activity k meets
DaysMet(k) ==
    IF plannedStops[k].duration_hours = 0 THEN 0
    ELSE (startOfDay(ActivityEnd(k) - 1) - startOfDay(ActivityStart(k)))
            \div MinutesPerDay + 1

Running == pc \in {"forEach", "while", "post"}

OncePerDay ==
    /\ pc \in {"post", "done"} =>
          \A k \in DOMAIN plannedStops : IterationsOf(k) = DaysMet(k)
    /\ pc = "forEach" =>
          \A k \in 1..(stopIdx - 1) : IterationsOf(k) = DaysMet(k)

\* C19: every call on a finite list of stops with non-negative durations
\* runs to its return, and the day-splitting loop of an activity runs exactly
\* once for every calendar day the activity touches.
C19_Terminates ==
    [](OncePerDay) /\ (Running ~> Done)

C19_Witness ==
    /\ Done
    /\ Len(plannedStops) = 2
    /\ \E k \in DOMAIN plannedStops : IterationsOf(k) >= 2
    /\ \E k \in DOMAIN plannedStops :
          /\ plannedStops[k].duration_hours > 0
          /\ IterationsOf(k) = 1
          /\ ActivityEnd(k) = startOfDay(ActivityEnd(k))

----------------------------------------------------------------------------
(* The displayed summary *)

\* C12: once DailySummaryTable has rendered a summary, its three displayed
\* values add up to 24 h within 0.01 h, and Driving and On Duty (Not Driving)
\* are the values of the four-category summary: only Off Duty is adjusted.
C12_DisplayedTotal ==
    tablePc = "shown" =>
        /\ Abs(TotalOf(mergedSummary) - FullDay) <= Tolerance
        /\ mergedSummary["Driving"] = OrZero(summaryData, "Driving")
        /\ mergedSummary["On Duty (Not Driving)"]
              = OrZero(summaryData, "On Duty (Not Driving)")

C12_Witness ==
    /\ tablePc = "shown"
    /\ DOMAIN summaryData = StatusSet
    /\ summaryData["Sleeper Birth"] > 0
    /\ summaryData["Driving"] > 0
    /\ Abs(TotalOf(MergedOf(summaryData)) - FullDay) > Tolerance
    /\ mergedSummary # MergedOf(summaryData)

----------------------------------------------------------------------------
(* Independence of the days *)

\* a statement of one day's iteration changes that day's entry and locals only
OwnEntryOnly ==
    (pc = "postAny" /\ pc' = "postAny") =>
        \E dateKey \in DOMAIN dayPc :
            /\ dayPc'[dateKey] # dayPc[dateKey]
            /\ \A other \in DOMAIN dayPc \ {dateKey} :
                  /\ dayPc'[other] = dayPc[other]
                  /\ dailyData'[other] = dailyData[other]
                  /\ dayLocals'[other] = dayLocals[other]

\* C13: with the days post-processed in any order and interleaved statement
\* by statement, every statement touches its own day only and the result is
\* the one of the code's iteration order.
C13_OrderIndependent ==
    /\ [](Done => dailyData = processTripData(plannedStops, startDate).dailyData)
    /\ [][OwnEntryOnly]_vars

C13_Witness ==
    /\ Done
    /\ Len(dayOrder) >= 2
    /\ Len(orderHistory.finished) = Len(dayOrder)
    /\ orderHistory.finished # dayOrder
    /\ orderHistory.overlapped # {}
    /\ \E dateKey \in DOMAIN dailyData :
          Len(dailyData[dateKey].segments) < Len(dayLocals[dateKey].filledSegments)

----------------------------------------------------------------------------
(* The ELD log view without a trip *)

\* C20: when the element of /eld-log has rendered while tripData is null, the
\* screen is the 'No trip planned yet.' placeholder and processTripData has
\* not been run.
C20_NullShowsPlaceholder ==
    (path = "/eld-log" /\ tripData = null /\ screen # "rendering") =>
        /\ screen = "No trip planned yet."
        /\ processedLogData = EmptyDailyData

----------------------------------------------------------------------------
(* fetchTripData *)

\* the trip data a settled request leaves: the body of a 200, the test route
\* data otherwise
ExpectedTrip(settled) ==
    IF settled.status = 200 THEN <<settled.data>> ELSE <<testRouteData>>

\* at line 178 the trip data has been set from the settled request
SetBeforeNavigate ==
    fetchPc = "navigate" =>
        /\ response # null
        /\ tripData # null
        /\ tripData = ExpectedTrip(response[1])

\* TripForm changes the path only by the navigate of a settled request, and
\* with a blank field it sends no request and changes neither trip data nor path
FetchStep ==
    /\ (screen = "TripForm" /\ path' # path /\ tripData' # null) =>
          /\ fetchPc = "navigate"
          /\ path' = redirectPath
          /\ tripData' = tripData
    /\ (screen = "TripForm" /\ fetchPc \in { "idle", "alerted" } /\ AnyBlank(form)) =>
          /\ fetchPc' # "awaiting"
          /\ \/ path' = path /\ tripData' = tripData
             \/ tripData' = null /\ screen' = "rendering"

\* C21: fetchTripData navigates only after the trip data has been set, to the
\* response body on HTTP 200 and to the test route data on any other status,
\* failure or timeout; with a blank field it sends no request, leaves the trip
\* data alone and does not navigate.
C21_NavigateAfterSetTrip ==
    /\ [](SetBeforeNavigate)
    /\ [][FetchStep]_vars

C21_Witness ==
    /\ path = "/eld-log"
    /\ redirectPath = "/eld-log"
    /\ screen = "DailyLogVisualizer"
    /\ fetchPc = "idle"
    /\ response # null
    /\ response[1].status = 0
    /\ tripData = <<testRouteData>>

----------------------------------------------------------------------------
(* The days of the result *)

\* the instant the last activity ends at
TripEnd ==
    startDate + SumSeq([i \in DOMAIN plannedStops |-> plannedStops[i].duration_hours])

\* the keys of the trip-start day and of the n days after it
DayRun(n) ==
    { format(startOfDay(startDate) + i * MinutesPerDay) : i \in 0..n }

\* the number of midnights between the trip start and the trip end
MidnightsPassed ==
    (startOfDay(TripEnd) - startOfDay(startDate)) \div MinutesPerDay

\* C22: with an activity of positive duration, the day keys of the result are
\* the trip-start day and the days that follow it without a gap, up to the day
\* of the trip's end instant at the latest.
C22_ContiguousDays ==
    (Done /\ \E k \in DOMAIN plannedStops : plannedStops[k].duration_hours > 0) =>
        \E n \in 0..MidnightsPassed : Days = DayRun(n)

C22_Witness ==
    /\ Done
    /\ Len(plannedStops) = 3
    /\ plannedStops[1].duration_hours = 0
    /\ plannedStops[2].duration_hours < MinutesPerHour
    /\ Cardinality(Days) >= 3
    /\ Days = DayRun(MidnightsPassed)

----------------------------------------------------------------------------
(* The status no activity has *)

\* C23: no segment of any day has the status Sleeper Birth and every day's
\* Sleeper Birth summary value is 0, at every point of every call.
C23_NoSleeperBirth ==
    \A dateKey \in Days :
        /\ \A i \in DOMAIN dailyData[dateKey].segments :
              dailyData[dateKey].segments[i].status # "Sleeper Birth"
        /\ dailyData[dateKey].summary["Sleeper Birth"] = 0

C23_Witness ==
    /\ Done
    /\ \E k \in DOMAIN plannedStops :
          /\ plannedStops[k].type = "Sleeper Birth"
          /\ CrossesMidnight(k)
    /\ \E k \in DOMAIN plannedStops : plannedStops[k].type \notin DOMAIN ELD_STATUS_MAP \cup StatusSet
    /\ \E dateKey \in Days : Len(stages[dateKey].filled) > Len(stages[dateKey].raw)

====
